---- MODULE Spec2Model ----
(***************************************************************************)
(* The sven background daemon (src/daemon.rs) with its Store (src/db.rs):  *)
(* the acceptor thread, one handler thread per connection, the database    *)
(* (worker) thread behind the db_tx/db_rx channel, the shared `secrets`    *)
(* map, the shutdown channel and the main thread that ends the process.    *)
(*                                                                         *)
(* Around it: the processes that start a daemon (start_daemon with         *)
(* is_daemon_running, sven.pid and sven.sock), the foreground client of    *)
(* src/main.rs that uses the daemon or the Store itself, and the one-line  *)
(* wire form of DaemonCommand and DaemonResponse.                          *)
(*                                                                         *)
(* Specifications: Spec, SeqSpec, AddsSpec, WaitSpec (a running daemon and *)
(* its connections), LockSpec (the handlers step by step around the        *)
(* cache's Mutex), LifeSpec (starts and stops), CliSpec (one start and one *)
(* foreground client), CodecSpec (encode, then decode).                    *)
(***************************************************************************)
EXTENDS Integers, Sequences, FiniteSets, TLC

\* ------------------------------------------------------------------ bounds
MaxConns == 2                 \* connections made to the daemon in one run

MaxStarters == 2              \* `sven unlock` processes started in one run
MaxList == 2                  \* entries of a Secrets or KeyList response

Conns == 1..MaxConns

Starters == 1..MaxStarters

Keys == {"FOO", "BAR"}
Values == {"bar", "baz"}
Shells == {"fish"}

\* ------------------------------------------------------- Cipher and Store
\* CryptoManager::encrypt / decrypt: an opaque armoured blob around the
\* plaintext; the Store only ever holds blobs.
Encrypt(v) == <<"pgp", v>>

Decrypt(ct) == ct[2]

\* rows of table `variables`: <<key, ciphertext>>
RowKeys(st) == {r[1] : r \in st}

\* INSERT OR REPLACE INTO variables (key, value) VALUES (?1, ?2)
InsertKeepingOld(st, k, ct) == st \cup {<<k, ct>>}

InsertOrReplace(st, k, ct) == {r \in st : r[1] # k} \cup {<<k, ct>>}

\* DELETE FROM variables WHERE key = ?1
DeleteRow(st, k) == {r \in st : r[1] # k}

\* Database::add_secret: encrypt, then execute; an error of either leaves
\* the table as it was.
AddSecretWritingOnError(st, k, v, fails) == InsertOrReplace(st, k, Encrypt(v))

AddSecretStore(st, k, v, fails) ==
    IF fails THEN st ELSE InsertOrReplace(st, k, Encrypt(v))

\* Database::remove_secret
RemoveSecretStore(st, k, fails) == IF fails THEN st ELSE DeleteRow(st, k)

\* the Result of the two operations, as the worker maps it for the reply
RemoveResultStrict(st, k, fails) ==
    IF fails \/ k \notin RowKeys(st) THEN "Err" ELSE "Ok"

AddResult(st, k, fails) == IF fails THEN "Err" ELSE "Ok"

RemoveResult(st, k, fails) == IF fails THEN "Err" ELSE "Ok"

\* Database::get_all_secrets: every row decrypted
GetAllSecrets(st) == {<<r[1], Decrypt(r[2])>> : r \in st}

\* ------------------------------------------------------- the secrets map
\* HashMap<String, String> as its set of entries <<key, value>>
MapKeys(m) == {e[1] : e \in m}

HashMapInsertClearing(m, k, v) == {<<k, v>>}

HashMapInsert(m, k, v) == {e \in m : e[1] # k} \cup {<<k, v>>}

HashMapRemove(m, k) == {e \in m : e[1] # k}

\* run_daemon: the map built from get_all_secrets
BuildSecretsMap(st) == GetAllSecrets(st)

\* ------------------------------------------------------------ wire format
\* serde_json, externally tagged enums: a unit variant is a JSON string,
\* a struct variant an object with one member named after the variant.
Commands ==
    [type : {"GetSecrets"}, shell : Shells]
    \cup [type : {"AddSecret"}, key : Keys, value : Values]
    \cup [type : {"RemoveSecret"}, key : Keys]
    \cup [type : {"ListSecrets", "Shutdown"}]

EncodeCommand(c) ==
    CASE c.type = "GetSecrets" -> <<"object", "GetSecrets", <<c.shell>>>>
      [] c.type = "AddSecret" -> <<"object", "AddSecret", <<c.key, c.value>>>>
      [] c.type = "RemoveSecret" -> <<"object", "RemoveSecret", <<c.key>>>>
      [] OTHER -> <<"string", c.type>>

\* a line no DaemonCommand serialises to: an unknown variant
Malformed == {<<"string", "Status">>}

Lines == {EncodeCommand(c) : c \in Commands} \cup Malformed

\* nothing read yet
NoLine == <<>>

Invalid == [type |-> "Invalid"]

\* serde_json::from_str::<DaemonCommand>: a string naming a unit variant,
\* or an object naming a struct variant with exactly its fields
ParseCommand(line) ==
    IF Len(line) < 2 THEN Invalid
    ELSE CASE line[1] = "string" /\ Len(line) = 2
                /\ line[2] \in {"ListSecrets", "Shutdown"} ->
                    [type |-> line[2]]
           [] line[1] = "object" /\ Len(line) = 3 /\ line[2] = "GetSecrets"
                /\ Len(line[3]) = 1 ->
                    [type |-> "GetSecrets", shell |-> line[3][1]]
           [] line[1] = "object" /\ Len(line) = 3 /\ line[2] = "AddSecret"
                /\ Len(line[3]) = 2 ->
                    [type |-> "AddSecret", key |-> line[3][1], value |-> line[3][2]]
           [] line[1] = "object" /\ Len(line) = 3 /\ line[2] = "RemoveSecret"
                /\ Len(line[3]) = 1 ->
                    [type |-> "RemoveSecret", key |-> line[3][1]]
           [] OTHER -> Invalid

DecodeLenient(line) ==
    IF ParseCommand(line) = Invalid THEN [type |-> "ListSecrets"]
    ELSE ParseCommand(line)

DecodeCommand(line) == ParseCommand(line)

IsMutation(c) == c.type \in {"AddSecret", "RemoveSecret"}

\* DaemonResponse values
NoResponse == [type |-> "None"]

SecretsResp(m) == [type |-> "Secrets", list |-> m]

KeyListRespOfValues(m) == [type |-> "KeyList", list |-> {e[2] : e \in m}]

KeyListResp(m) == [type |-> "KeyList", list |-> MapKeys(m)]

SuccessResp(msg) == [type |-> "Success", msg |-> msg]

ErrorResp(msg) == [type |-> "Error", msg |-> msg]

\* format!("Added secret: {}", key) / format!("Removed secret: {}", key)
ConfirmMsg(c) ==
    IF c.type = "AddSecret" THEN <<"Added secret: ", c.key>>
    ELSE <<"Removed secret: ", c.key>>

\* ------------------------------------------- responses on the wire
\* JSON values
JStr(x) == <<"str", x>>

JArr(xs) == <<"arr", xs>>

IsJStr(j) == Len(j) = 2 /\ j[1] = "str"

IsJArr(j) == Len(j) = 2 /\ j[1] = "arr"

\* a (String, String) is an array of two strings
JPair(e) == JArr(<<JStr(e[1]), JStr(e[2])>>)

IsJPair(j) ==
    /\ IsJArr(j)
    /\ Len(j[2]) = 2
    /\ IsJStr(j[2][1])
    /\ IsJStr(j[2][2])

\* serde_json::to_string(&DaemonResponse): a newtype variant is an object
\* with one member named after the variant
ResponseJson(r) ==
    CASE r.type = "Secrets" -> JArr([i \in 1..Len(r.list) |-> JPair(r.list[i])])
      [] r.type = "KeyList" -> JArr([i \in 1..Len(r.list) |-> JStr(r.list[i])])
      [] OTHER -> JStr(r.msg)

EncodeResponseAsSuccess(r) == <<"object", "Success", ResponseJson(r)>>

EncodeResponse(r) == <<"object", r.type, ResponseJson(r)>>

\* serde_json::from_str::<DaemonResponse>
DecodeResponse(line) ==
    IF Len(line) # 3 \/ line[1] # "object" THEN Invalid
    ELSE LET j == line[3] IN
         CASE line[2] = "Secrets" /\ IsJArr(j)
                /\ (\A i \in 1..Len(j[2]) : IsJPair(j[2][i])) ->
                    [type |-> "Secrets",
                     list |-> [i \in 1..Len(j[2]) |->
                                 <<j[2][i][2][1][2], j[2][i][2][2][2]>>]]
           [] line[2] = "KeyList" /\ IsJArr(j)
                /\ (\A i \in 1..Len(j[2]) : IsJStr(j[2][i])) ->
                    [type |-> "KeyList",
                     list |-> [i \in 1..Len(j[2]) |-> j[2][i][2]]]
           [] line[2] \in {"Success", "Error"} /\ IsJStr(j) ->
                    [type |-> line[2], msg |-> j[2]]
           [] OTHER -> Invalid

\* sequences of at most MaxList elements of S
ListsOf(S) == UNION {[1..n -> S] : n \in 0..MaxList}

\* the DaemonResponse values handle_client can build, with the Vec of
\* Secrets and KeyList in the order the map was iterated
Responses ==
    [type : {"Secrets"}, list : ListsOf(Keys \X Values)]
    \cup [type : {"KeyList"}, list : ListsOf(Keys)]
    \cup [type : {"Success"},
          msg : {ConfirmMsg(c) : c \in {d \in Commands : IsMutation(d)}}
                \cup {<<"Daemon shutting down">>}]
    \cup [type : {"Error"},
          msg : {<<"Failed to add secret: ", "e">>,
                 <<"Failed to remove secret: ", "e">>,
                 <<"Failed to communicate with database thread: ", "e">>}]

\* ------------------------------------------------ marker file and pids
\* The content of sven.pid is a sequence of characters; NoFile stands for
\* a path that does not exist.
NoFile == <<"<absent>">>

DigitChars == <<"0", "1", "2", "3", "4", "5", "6", "7", "8", "9">>

IsDigit(c) == \E i \in 1..Len(DigitChars) : DigitChars[i] = c

DigitVal(c) == (CHOOSE i \in 1..Len(DigitChars) : DigitChars[i] = c) - 1

IsSpace(c) == c \in {" ", "\n"}

\* u32::MAX, digit by digit
MaxU32Digits == <<"4", "2", "9", "4", "9", "6", "7", "2", "9", "5">>

RECURSIVE StripZeros(_)
StripZeros(ds) ==
    IF Len(ds) > 1 /\ Head(ds) = "0" THEN StripZeros(Tail(ds)) ELSE ds

\* ds, a sequence of digits, is a number above u32::MAX
Overflows(ds) ==
    LET n == StripZeros(ds) IN
    \/ Len(n) > Len(MaxU32Digits)
    \/ /\ Len(n) = Len(MaxU32Digits)
       /\ \E i \in 1..Len(n) :
            /\ DigitVal(n[i]) > DigitVal(MaxU32Digits[i])
            /\ \A j \in 1..(i - 1) : n[j] = MaxU32Digits[j]

RECURSIVE TrimStart(_)
TrimStart(line) ==
    IF line # <<>> /\ IsSpace(Head(line)) THEN TrimStart(Tail(line)) ELSE line

RECURSIVE TrimEnd(_)
TrimEnd(line) ==
    IF line # <<>> /\ IsSpace(line[Len(line)])
    THEN TrimEnd(SubSeq(line, 1, Len(line) - 1))
    ELSE line

\* str::trim
Trim(line) == TrimEnd(TrimStart(line))

RECURSIVE DigitsValue(_)
DigitsValue(ds) ==
    IF ds = <<>> THEN 0
    ELSE 10 * DigitsValue(SubSeq(ds, 1, Len(ds) - 1)) + DigitVal(ds[Len(ds)])

\* BufRead::read_line: up to and including the first newline
RECURSIVE ReadLine(_)
ReadLine(file) ==
    IF file = <<>> THEN <<>>
    ELSE IF Head(file) = "\n" THEN <<"\n">>
    ELSE <<Head(file)>> \o ReadLine(Tail(file))

ParseErr == [ok |-> FALSE]

\* str::parse::<u32>: an optional "+", then one or more digits, no overflow
ParseU32(text) ==
    LET ds == IF text # <<>> /\ Head(text) = "+" THEN Tail(text) ELSE text IN
    IF ds = <<>> \/ \E i \in 1..Len(ds) : ~IsDigit(ds[i]) THEN ParseErr
    ELSE IF Overflows(ds) THEN ParseErr
    ELSE [ok |-> TRUE, val |-> DigitsValue(ds)]

\* format!("{}", pid)
RECURSIVE PidString(_)
PidString(pid) ==
    IF pid < 10 THEN <<DigitChars[pid + 1]>>
    ELSE PidString(pid \div 10) \o <<DigitChars[(pid % 10) + 1]>>

\* the pid the daemon forked by starter s gets
DaemonPid(s) == s

\* a pid no process has
StalePid == MaxStarters + 1

\* a live process that is not a sven daemon
UnrelatedPid == MaxStarters + 2

\* Daemon::is_daemon_running on a marker `file` with `live` the pids that
\* have a /proc entry; the mutant never finds the /proc entry
IsDaemonRunningNoProc(file, live) ==
    IF file = NoFile THEN "Ok(false)"
    ELSE IF ~ParseU32(Trim(ReadLine(file))).ok THEN "Err"
    ELSE "Ok(false)"

IsDaemonRunning(file, live) ==
    IF file = NoFile THEN "Ok(false)"
    ELSE LET pid == ParseU32(Trim(ReadLine(file))) IN
         IF ~pid.ok THEN "Err"
         ELSE IF pid.val \in live THEN "Ok(true)" ELSE "Ok(false)"

\* ------------------------------------------------------------------ state
VARIABLES
    store,        \* rows of the sqlite table `variables`
    secrets,      \* Arc<Mutex<HashMap>>: the in-memory cache
    db_queue,     \* DbCommands sent on db_tx and not yet received
    db_rx_open,   \* the worker still owns db_rx
    worker,       \* database thread: "start", "recv", "exec", "exited"
    workerCmd,    \* the DbCommand the database thread is executing
    reply,        \* per connection: what resp_rx.recv() will return
    hpc,          \* per connection: position of its handler
    hline,        \* per connection: the line the client wrote
    hresp,        \* per connection: the DaemonResponse computed
    wire,         \* per connection: lines written back to the client
    shutdown_buf, \* messages in the shutdown channel (capacity 1)
    mainPc,       \* main thread of run_daemon
    socketExists, \* sven.sock exists
    enqueued,     \* history: connections in the order their request was queued
    applied,      \* history: connections in the order the worker executed them
    pidFile,      \* content of sven.pid, or NoFile
    pidLock,      \* starter whose daemon holds the lock on sven.pid, 0: nobody
    procs,        \* pids that have a /proc entry
    spc,          \* per starter: position in start_daemon / run_daemon
    probe,        \* per starter: what its is_daemon_running read and returned
    daemonId,     \* the starter whose daemon owns the daemon state above
    cliPc,        \* foreground client (sven add/remove/list/export)
    cliOp,        \* the operation the foreground client was asked for
    cliConn,      \* the connection the foreground client made, 0: none
    codecVal,     \* a value handed to serde_json::to_string
    codecLine,    \* the line it was written as
    codecBack,    \* what serde_json::from_str made of that line
    unlock,       \* per starter: the `sven unlock` process that asked for it
    guard,        \* the connection whose handler holds the cache's Mutex, 0: free
    before        \* the cache as it was when the Mutex was last taken

vars == <<store, secrets, db_queue, db_rx_open, worker, workerCmd, reply, hpc,
          hline, hresp, wire, shutdown_buf, mainPc, socketExists,
          enqueued, applied, pidFile, pidLock, procs, spc, probe, daemonId,
          cliPc, cliOp, cliConn, codecVal, codecLine, codecBack, unlock,
          guard, before>>

lifeVars == <<pidFile, pidLock, procs, spc, probe, daemonId, unlock>>

cliVars == <<cliPc, cliOp, cliConn>>

codecVars == <<codecVal, codecLine, codecBack>>

lockVars == <<guard, before>>

extVars == <<lifeVars, cliVars, codecVars, lockVars>>

connVars == <<hpc, hline, hresp, wire>>

mainVars == <<shutdown_buf, mainPc, socketExists>>

workerVars == <<db_queue, db_rx_open, worker, workerCmd, reply>>

histVars == <<enqueued, applied>>

NoCmd == [type |-> "None"]

\* DbCommand::Shutdown carries no reply channel
ShutdownCmd == [type |-> "Shutdown", conn |-> 0]

\* mpsc::channel::<()>(1)
ShutdownCapacity == 1

\* the daemon process has not reached std::process::exit
Alive == mainPc # "exited"

Cmd(h) == DecodeCommand(hline[h])

\* is_daemon_running not called yet
NoProbe == [result |-> "None"]

\* main.rs, Commands::Unlock: the process is inside Daemon::start_daemon(),
\* has made no probe and has printed nothing
UnlockCalled == [pc |-> "start_daemon", attempts |-> 0, printed |-> "none"]

\* start_daemon returns only Err: main prints it and calls exit(1).  When
\* daemonize.start() succeeds the calling process ends inside it and the
\* forked process never leaves the Ok arm (run_daemon, then exit), so the
\* statements after `if let Err(e) = Daemon::start_daemon()` get no Ok(())
UnlockAfter(u, pc) ==
    CASE pc \in {"rejected", "failed"} ->
            [u EXCEPT !.pc = "exit(1)", !.printed = "Failed to start daemon: "]
      [] pc \in {"remove_socket", "daemonize"} -> u
      [] OTHER -> [u EXCEPT !.pc = "ended"]

\* the Store as it is when a daemon is started
InitStores == {{<<"FOO", Encrypt("bar")>>}}

Init ==
    /\ store \in InitStores
    /\ secrets = BuildSecretsMap(store)
    /\ db_queue = <<>>
    /\ db_rx_open = TRUE
    /\ worker = "start"
    /\ workerCmd = NoCmd
    /\ reply = [h \in Conns |-> "Pending"]
    /\ hpc = [h \in Conns |-> "unused"]
    /\ hline = [h \in Conns |-> NoLine]
    /\ hresp = [h \in Conns |-> NoResponse]
    /\ wire = [h \in Conns |-> <<>>]
    /\ shutdown_buf = 0
    /\ mainPc = "block_on"
    /\ socketExists = TRUE
    /\ enqueued = <<>>
    /\ applied = <<>>
    /\ pidFile = PidString(DaemonPid(1))
    /\ pidLock = 1
    /\ procs = {DaemonPid(1), UnrelatedPid}
    /\ spc = [s \in Starters |-> IF s = 1 THEN "running" ELSE "idle"]
    /\ probe = [s \in Starters |-> NoProbe]
    /\ daemonId = 1
    /\ cliPc = "idle"
    /\ cliOp = NoCmd
    /\ cliConn = 0
    /\ codecVal = NoCmd
    /\ codecLine = NoLine
    /\ codecBack = NoCmd
    /\ unlock = [s \in Starters |->
                    IF s = 1 THEN UnlockAfter(UnlockCalled, "running")
                    ELSE UnlockCalled]
    /\ guard = 0
    /\ before = secrets

\* ------------------------------------------------------------- the client
\* DaemonClient::send_command: the socket file exists, connect, write one
\* line.  The connection waits in the listener's backlog.
ClientConnect(h, line) ==
    /\ Alive
    /\ socketExists
    /\ hpc[h] = "unused"
    /\ \A g \in Conns : g < h => hpc[g] # "unused"
    /\ hpc' = [hpc EXCEPT ![h] = "connected"]
    /\ hline' = [hline EXCEPT ![h] = line]
    /\ UNCHANGED <<store, secrets, hresp, wire, workerVars, mainVars, histVars,
                   lifeVars, codecVars, lockVars>>

Connect ==
    /\ \E h \in Conns, line \in Lines : ClientConnect(h, line)
    /\ UNCHANGED cliVars

\* ----------------------------------------------------------- the acceptor
\* listener.incoming(): the oldest waiting connection gets a handler thread
Accept ==
    /\ Alive
    /\ \E h \in Conns :
        /\ hpc[h] = "connected"
        /\ \A g \in Conns : g < h => hpc[g] # "connected"
        /\ hpc' = [hpc EXCEPT ![h] = "start"]
    /\ UNCHANGED <<extVars, store, secrets, hline, hresp, wire, workerVars,
                   mainVars, histVars>>

\* ----------------------------------------------------------- the handlers
DbRequest(h) ==
    IF Cmd(h).type = "AddSecret"
    THEN [type |-> "AddSecret", key |-> Cmd(h).key, value |-> Cmd(h).value, conn |-> h]
    ELSE [type |-> "RemoveSecret", key |-> Cmd(h).key, conn |-> h]

\* read_line + serde_json::from_str fail: `?` returns the error, nothing
\* is written
HandleMalformed(h) ==
    /\ Alive
    /\ hpc[h] = "start"
    /\ Cmd(h) = Invalid
    /\ hpc' = [hpc EXCEPT ![h] = "failed"]
    /\ UNCHANGED <<extVars, store, secrets, hline, hresp, wire, workerVars,
                   mainVars, histVars>>

\* secrets.lock() returns when no other thread holds the Mutex
MutexAlwaysFree(g) == TRUE

MutexFree(g) == g = 0

\* GetSecrets / ListSecrets: lock, copy, unlock
ReadResponse(c, m) ==
    IF c.type = "GetSecrets" THEN SecretsResp(m) ELSE KeyListResp(m)

HandleRead(h) ==
    /\ Alive
    /\ hpc[h] = "start"
    /\ Cmd(h).type \in {"GetSecrets", "ListSecrets"}
    /\ MutexFree(guard)
    /\ hresp' = [hresp EXCEPT ![h] = ReadResponse(Cmd(h), secrets)]
    /\ hpc' = [hpc EXCEPT ![h] = "respond"]
    /\ UNCHANGED <<extVars, store, secrets, hline, wire, workerVars, mainVars,
                   histVars>>

\* AddSecret / RemoveSecret: db_tx.send(..)?  An error of send (the
\* receiver is gone) is returned by `?` before anything is written.
HandleEnqueue(h) ==
    /\ Alive
    /\ hpc[h] = "start"
    /\ IsMutation(Cmd(h))
    /\ IF db_rx_open
       THEN /\ db_queue' = Append(db_queue, DbRequest(h))
            /\ enqueued' = Append(enqueued, h)
            /\ hpc' = [hpc EXCEPT ![h] = "wait"]
       ELSE /\ hpc' = [hpc EXCEPT ![h] = "failed"]
            /\ UNCHANGED <<db_queue, enqueued>>
    /\ UNCHANGED <<extVars, store, secrets, hline, hresp, wire, db_rx_open,
                   worker, workerCmd, reply, mainVars, applied>>

\* match resp_rx.recv(): the cache changes on Ok(Ok(msg)) only
CacheAfterReplyAlways(m, c, r) ==
    IF c.type = "AddSecret" THEN HashMapInsert(m, c.key, c.value)
    ELSE HashMapRemove(m, c.key)

CacheAfterReply(m, c, r) ==
    IF r # "Ok" THEN m
    ELSE IF c.type = "AddSecret" THEN HashMapInsert(m, c.key, c.value)
    ELSE HashMapRemove(m, c.key)

FailMsg(c) ==
    IF c.type = "AddSecret" THEN "Failed to add secret: " ELSE "Failed to remove secret: "

ResponseAfterReply(c, r) ==
    CASE r = "Ok" -> SuccessResp(ConfirmMsg(c))
      [] r = "Err" -> ErrorResp(<<FailMsg(c), "e">>)
      [] OTHER -> ErrorResp(<<"Failed to communicate with database thread: ", "e">>)

HandleReply(h) ==
    /\ Alive
    /\ hpc[h] = "wait"
    /\ reply[h] # "Pending"
    /\ reply[h] = "Ok" => MutexFree(guard)
    /\ secrets' = CacheAfterReply(secrets, Cmd(h), reply[h])
    /\ hresp' = [hresp EXCEPT ![h] = ResponseAfterReply(Cmd(h), reply[h])]
    /\ hpc' = [hpc EXCEPT ![h] = "respond"]
    /\ UNCHANGED <<extVars, store, hline, wire, workerVars, mainVars, histVars>>

\* Shutdown: shutdown_tx.blocking_send(()) waits for room in the channel
HandleShutdown(h) ==
    /\ Alive
    /\ hpc[h] = "start"
    /\ Cmd(h).type = "Shutdown"
    /\ shutdown_buf < ShutdownCapacity
    /\ shutdown_buf' = shutdown_buf + 1
    /\ hresp' = [hresp EXCEPT ![h] = SuccessResp(<<"Daemon shutting down">>)]
    /\ hpc' = [hpc EXCEPT ![h] = "respond"]
    /\ UNCHANGED <<extVars, store, secrets, hline, wire, workerVars, mainPc,
                   socketExists, histVars>>

\* serde_json::to_string + writeln!: the one line written back
HandleWrite(h) ==
    /\ Alive
    /\ hpc[h] = "respond"
    /\ wire' = [wire EXCEPT ![h] = Append(wire[h], hresp[h])]
    /\ hpc' = [hpc EXCEPT ![h] = "done"]
    /\ UNCHANGED <<extVars, store, secrets, hline, hresp, workerVars, mainVars,
                   histVars>>

RejectMalformed == \E h \in Conns : HandleMalformed(h)

Read == \E h \in Conns : HandleRead(h)

Enqueue == \E h \in Conns : HandleEnqueue(h)

Reply == \E h \in Conns : HandleReply(h)

SignalShutdown == \E h \in Conns : HandleShutdown(h)

Write == \E h \in Conns : HandleWrite(h)

\* ------------------------------------------------- the database thread
\* a dropped DbCommand drops its resp sender: recv() on the other end
\* returns RecvError
RepliesKeptAfterDrop(rep, q) == rep

RepliesAfterDrop(rep, q) ==
    [h \in Conns |-> IF \E i \in 1..Len(q) : q[i].conn = h THEN "Disconnected" ELSE rep[h]]

\* Database::new() in the thread: on Err the closure ends and db_rx is dropped
WorkerStart(ok) ==
    /\ Alive
    /\ worker = "start"
    /\ IF ok
       THEN /\ worker' = "recv"
            /\ UNCHANGED <<db_queue, db_rx_open, reply>>
       ELSE /\ worker' = "exited"
            /\ db_rx_open' = FALSE
            /\ reply' = RepliesAfterDrop(reply, db_queue)
            /\ db_queue' = <<>>
    /\ UNCHANGED <<extVars, store, secrets, workerCmd, connVars, mainVars, histVars>>

\* `for cmd in db_rx`: the oldest message of the channel
ReceiveNewest(q) == [msg |-> q[Len(q)], rest |-> SubSeq(q, 1, Len(q) - 1)]

Receive(q) == [msg |-> Head(q), rest |-> Tail(q)]

\* DbCommand::Shutdown => break: the loop ends, db_rx is dropped with
\* whatever is still queued
WorkerRecv ==
    /\ Alive
    /\ worker = "recv"
    /\ db_queue # <<>>
    /\ LET r == Receive(db_queue) IN
        IF r.msg.type = "Shutdown"
        THEN /\ worker' = "exited"
             /\ db_rx_open' = FALSE
             /\ reply' = RepliesAfterDrop(reply, r.rest)
             /\ db_queue' = <<>>
             /\ UNCHANGED workerCmd
        ELSE /\ worker' = "exec"
             /\ workerCmd' = r.msg
             /\ db_queue' = r.rest
             /\ UNCHANGED <<db_rx_open, reply>>
    /\ UNCHANGED <<extVars, store, secrets, connVars, mainVars, histVars>>

\* where the loop goes after a command, whatever its result
AfterExecStoppingOnError(result) == IF result = "Err" THEN "exited" ELSE "recv"

AfterExec(result) == "recv"

StoreAfter(st, c, fails) ==
    IF c.type = "AddSecret" THEN AddSecretStore(st, c.key, c.value, fails)
    ELSE RemoveSecretStore(st, c.key, fails)

ResultOf(st, c, fails) ==
    IF c.type = "AddSecret" THEN AddResult(st, c.key, fails)
    ELSE RemoveResult(st, c.key, fails)

\* db.add_secret / db.remove_secret, then resp.send(result); `fails`: the
\* Cipher or the Store returns an error for this operation
WorkerExec(fails) ==
    /\ Alive
    /\ worker = "exec"
    /\ LET c == workerCmd
           result == ResultOf(store, c, fails) IN
        /\ store' = StoreAfter(store, c, fails)
        /\ reply' = [reply EXCEPT ![c.conn] = result]
        /\ worker' = AfterExec(result)
        /\ db_rx_open' = (AfterExec(result) # "exited")
        /\ applied' = Append(applied, c.conn)
    /\ workerCmd' = NoCmd
    /\ UNCHANGED <<extVars, secrets, db_queue, connVars, mainVars, enqueued>>

\* ------------------------------------------------------ the main thread
\* rt.block_on(rx.recv())
MainRecvSignal ==
    /\ mainPc = "block_on"
    /\ shutdown_buf > 0
    /\ shutdown_buf' = shutdown_buf - 1
    /\ mainPc' = "send_shutdown"
    /\ UNCHANGED <<extVars, store, secrets, connVars, workerVars, socketExists,
                   histVars>>

\* let _ = db_tx.send(DbCommand::Shutdown)
MainSendShutdown ==
    /\ mainPc = "send_shutdown"
    /\ db_queue' = IF db_rx_open THEN Append(db_queue, ShutdownCmd)
                   ELSE db_queue
    /\ mainPc' = "cleanup"
    /\ UNCHANGED <<extVars, store, secrets, connVars, db_rx_open, worker, workerCmd,
                   reply, shutdown_buf, socketExists, histVars>>

\* remove_file(socket_path), Ok(())
MainCleanup ==
    /\ mainPc = "cleanup"
    /\ socketExists' = FALSE
    /\ mainPc' = "exit"
    /\ UNCHANGED <<extVars, store, secrets, connVars, workerVars, shutdown_buf,
                   histVars>>

\* start_daemon: std::process::exit(0) ends every thread; the pid is gone
\* and the lock on sven.pid is released, sven.pid itself stays
MainExit ==
    /\ mainPc = "exit"
    /\ mainPc' = "exited"
    /\ procs' = procs \ {DaemonPid(daemonId)}
    /\ pidLock' = 0
    /\ spc' = [spc EXCEPT ![daemonId] = "exited"]
    /\ UNCHANGED <<store, secrets, connVars, workerVars, shutdown_buf,
                   socketExists, histVars, pidFile, probe, daemonId, unlock,
                   cliVars, codecVars, lockVars>>

WorkerStartOk == WorkerStart(TRUE)

WorkerStartErr == WorkerStart(FALSE)

WorkerExecOk == WorkerExec(FALSE)

WorkerExecErr == WorkerExec(TRUE)

DaemonStep ==
    \/ Accept
    \/ RejectMalformed
    \/ Read
    \/ Enqueue
    \/ Reply
    \/ SignalShutdown
    \/ Write
    \/ WorkerStartOk
    \/ WorkerStartErr
    \/ WorkerRecv
    \/ WorkerExecOk
    \/ WorkerExecErr
    \/ MainRecvSignal
    \/ MainSendShutdown
    \/ MainCleanup
    \/ MainExit

Next == Connect \/ DaemonStep

Spec == Init /\ [][Next]_vars

\* one command at a time: a client connects only when every earlier
\* connection has been answered or closed
NoneOpen == \A h \in Conns : hpc[h] \in {"unused", "done", "failed"}

SeqNext == (Connect /\ NoneOpen) \/ DaemonStep

SeqSpec == Init /\ [][SeqNext]_vars

\* N concurrent AddSecret for distinct keys, every thread scheduled,
\* Database::new() and the Store/Cipher operations succeeding
AddConnect ==
    /\ \E h \in Conns, k \in Keys, v \in Values :
        /\ \A g \in Conns : hpc[g] # "unused" => Cmd(g).key # k
        /\ ClientConnect(h, EncodeCommand([type |-> "AddSecret", key |-> k, value |-> v]))
    /\ UNCHANGED cliVars

AddsNext ==
    \/ AddConnect
    \/ Accept
    \/ Enqueue
    \/ Reply
    \/ Write
    \/ WorkerStartOk
    \/ WorkerRecv
    \/ WorkerExecOk

AddsFairness ==
    /\ WF_vars(Accept)
    /\ WF_vars(WorkerStartOk)
    /\ WF_vars(WorkerRecv)
    /\ WF_vars(WorkerExecOk)
    /\ \A h \in Conns : WF_vars(HandleEnqueue(h))
    /\ \A h \in Conns : WF_vars(HandleReply(h))
    /\ \A h \in Conns : WF_vars(HandleWrite(h))

AddsSpec == Init /\ [][AddsNext]_vars /\ AddsFairness

\* mutations of one key and Shutdown, every thread of the daemon scheduled
WaitLines ==
    {EncodeCommand([type |-> "AddSecret", key |-> "FOO", value |-> "baz"]),
     EncodeCommand([type |-> "RemoveSecret", key |-> "FOO"]),
     EncodeCommand([type |-> "Shutdown"])}

WaitConnect ==
    /\ \E h \in Conns, line \in WaitLines : ClientConnect(h, line)
    /\ UNCHANGED cliVars

WaitNext ==
    \/ WaitConnect
    \/ Accept
    \/ Enqueue
    \/ Reply
    \/ SignalShutdown
    \/ Write
    \/ WorkerStartOk
    \/ WorkerStartErr
    \/ WorkerRecv
    \/ WorkerExecOk
    \/ WorkerExecErr
    \/ MainRecvSignal
    \/ MainSendShutdown
    \/ MainCleanup
    \/ MainExit

\* the database thread runs whenever it can
WaitFairness ==
    /\ WF_vars(WorkerStartOk \/ WorkerStartErr)
    /\ WF_vars(WorkerRecv)
    /\ WF_vars(WorkerExecOk \/ WorkerExecErr)

WaitSpec == Init /\ [][WaitNext]_vars /\ WaitFairness

\* ------------------------------------------------- the cache's Mutex
\* The handlers step by step: taking the Mutex, what is done under it, and
\* dropping the guard at the end of the match arm.

\* GetSecrets / ListSecrets: let secrets_guard = secrets.lock().unwrap()
LockRead(h) ==
    /\ Alive
    /\ hpc[h] = "start"
    /\ Cmd(h).type \in {"GetSecrets", "ListSecrets"}
    /\ MutexFree(guard)
    /\ guard' = h
    /\ hpc' = [hpc EXCEPT ![h] = "reading"]
    /\ UNCHANGED <<store, secrets, hline, hresp, wire, workerVars, mainVars,
                   histVars, lifeVars, cliVars, codecVars, before>>

\* the entries (or the keys) are cloned into a Vec; the guard is dropped
CopyRead(h) ==
    /\ Alive
    /\ hpc[h] = "reading"
    /\ hresp' = [hresp EXCEPT ![h] = ReadResponse(Cmd(h), secrets)]
    /\ guard' = IF guard = h THEN 0 ELSE guard
    /\ hpc' = [hpc EXCEPT ![h] = "respond"]
    /\ UNCHANGED <<store, secrets, hline, wire, workerVars, mainVars,
                   histVars, lifeVars, cliVars, codecVars, before>>

\* the arm of `match resp_rx.recv()` that locks the cache is Ok(Ok(msg)):
\* the handler has its reply when it calls secrets.lock()
LocksBeforeReply(r) == r \in {"Pending", "Ok"}

LocksCache(r) == r = "Ok"

\* AddSecret / RemoveSecret: let mut secrets_guard = secrets.lock().unwrap()
LockWrite(h) ==
    /\ Alive
    /\ hpc[h] = "wait"
    /\ LocksCache(reply[h])
    /\ MutexFree(guard)
    /\ guard' = h
    /\ before' = secrets
    /\ hpc' = [hpc EXCEPT ![h] = "locked"]
    /\ UNCHANGED <<store, secrets, hline, hresp, wire, workerVars, mainVars,
                   histVars, lifeVars, cliVars, codecVars>>

\* secrets_guard.insert(key, value) / remove(&key) has begun: the entry of
\* the key is vacated and the new one is not yet in place
WriteBegin(h) ==
    /\ Alive
    /\ hpc[h] = "locked"
    /\ secrets' = HashMapRemove(secrets, Cmd(h).key)
    /\ hpc' = [hpc EXCEPT ![h] = "writing"]
    /\ UNCHANGED <<store, hline, hresp, wire, workerVars, mainVars, histVars,
                   lifeVars, cliVars, codecVars, lockVars>>

\* insert / remove has returned; the guard is dropped
WriteEnd(h) ==
    /\ Alive
    /\ hpc[h] = "writing"
    /\ secrets' = CacheAfterReply(secrets, Cmd(h), "Ok")
    /\ hresp' = [hresp EXCEPT ![h] = ResponseAfterReply(Cmd(h), "Ok")]
    /\ guard' = IF guard = h THEN 0 ELSE guard
    /\ hpc' = [hpc EXCEPT ![h] = "respond"]
    /\ UNCHANGED <<store, hline, wire, workerVars, mainVars, histVars,
                   lifeVars, cliVars, codecVars, before>>

\* Ok(Err(e)) and Err(e): an Error response, the cache is not locked
ReplyFailed(h) ==
    /\ reply[h] \notin {"Pending", "Ok"}
    /\ HandleReply(h)

LockLines ==
    {EncodeCommand([type |-> "GetSecrets", shell |-> "fish"]),
     EncodeCommand([type |-> "ListSecrets"]),
     EncodeCommand([type |-> "AddSecret", key |-> "FOO", value |-> "baz"]),
     EncodeCommand([type |-> "RemoveSecret", key |-> "FOO"])}

LockConnect ==
    /\ \E h \in Conns, line \in LockLines : ClientConnect(h, line)
    /\ UNCHANGED cliVars

LockReads == \E h \in Conns : LockRead(h)

CopyReads == \E h \in Conns : CopyRead(h)

LockWrites == \E h \in Conns : LockWrite(h)

WriteBegins == \E h \in Conns : WriteBegin(h)

WriteEnds == \E h \in Conns : WriteEnd(h)

RepliesFailed == \E h \in Conns : ReplyFailed(h)

LockNext ==
    \/ LockConnect
    \/ Accept
    \/ LockReads
    \/ CopyReads
    \/ Enqueue
    \/ LockWrites
    \/ WriteBegins
    \/ WriteEnds
    \/ RepliesFailed
    \/ Write
    \/ WorkerStartOk
    \/ WorkerStartErr
    \/ WorkerRecv
    \/ WorkerExecOk
    \/ WorkerExecErr

\* every handler thread runs whenever it can; nothing is assumed of the
\* database thread
LockFairness ==
    \A h \in Conns :
        /\ WF_vars(LockRead(h))
        /\ WF_vars(CopyRead(h))
        /\ WF_vars(LockWrite(h))
        /\ WF_vars(WriteBegin(h))
        /\ WF_vars(WriteEnd(h))

LockSpec == Init /\ [][LockNext]_vars /\ LockFairness

\* ------------------------------------------------- starting a daemon
\* start_daemon, first statement: is_daemon_running()?
AfterCheck(result) ==
    CASE result = "Ok(true)" -> "rejected"
      [] result = "Err" -> "failed"
      [] OTHER -> "remove_socket"

StartCheck(s) ==
    /\ spc[s] = "idle"
    /\ LET result == IsDaemonRunning(pidFile, procs) IN
        /\ probe' = [probe EXCEPT ![s] =
                        [line |-> pidFile, live |-> procs, result |-> result]]
        /\ spc' = [spc EXCEPT ![s] = AfterCheck(result)]
        /\ unlock' = [unlock EXCEPT ![s] = UnlockAfter(@, AfterCheck(result))]
    /\ UNCHANGED <<store, secrets, connVars, workerVars, mainVars, histVars,
                   pidFile, pidLock, procs, daemonId, cliVars, codecVars,
                   lockVars>>

\* if socket_path.exists() { remove_file }
StartRemoveSocket(s) ==
    /\ spc[s] = "remove_socket"
    /\ socketExists' = FALSE
    /\ spc' = [spc EXCEPT ![s] = "daemonize"]
    /\ UNCHANGED <<store, secrets, connVars, workerVars, shutdown_buf, mainPc,
                   histVars, pidFile, pidLock, procs, probe, daemonId, unlock,
                   cliVars, codecVars, lockVars>>

\* Daemonize::start of the daemonize crate: sven.pid is opened (created if
\* absent) and locked with flock(LOCK_EX | LOCK_NB) before the fork; the
\* call fails when another process holds the lock.  The forked daemon
\* keeps the lock until it exits.
LockPidFileUnlocked(lock, s) == [ok |-> TRUE, lock |-> s]

LockPidFile(lock, s) ==
    IF lock # 0 THEN [ok |-> FALSE, lock |-> lock]
    ELSE [ok |-> TRUE, lock |-> s]

\* what the daemon process does after daemonize.start(), in order:
\* run_daemon builds the cache, then binds the socket and creates the
\* threads, and is Running
RunDaemonThreadsFirst == <<"bind", "load", "running">>

RunDaemonOrder == <<"load", "bind", "running">>

StepAfter(pc) ==
    LET order == <<"daemonize">> \o RunDaemonOrder
        i == CHOOSE j \in 1..Len(order) : order[j] = pc
    IN  order[i + 1]

\* the daemon truncates sven.pid and writes its own pid
MarkerKept(file, s) == file

MarkerAfterStart(file, s) == PidString(DaemonPid(s))

\* daemonize.start(): lock, fork, write the daemon's pid into sven.pid
StartDaemonize(s) ==
    /\ spc[s] = "daemonize"
    /\ LET l == LockPidFile(pidLock, s) IN
        IF l.ok
        THEN /\ pidLock' = l.lock
             /\ pidFile' = MarkerAfterStart(pidFile, s)
             /\ procs' = procs \cup {DaemonPid(s)}
             /\ spc' = [spc EXCEPT ![s] = StepAfter("daemonize")]
             /\ unlock' = [unlock EXCEPT ![s] = UnlockAfter(@, StepAfter("daemonize"))]
        ELSE /\ spc' = [spc EXCEPT ![s] = "failed"]
             /\ unlock' = [unlock EXCEPT ![s] = UnlockAfter(@, "failed")]
             /\ UNCHANGED <<pidLock, pidFile, procs>>
    /\ UNCHANGED <<store, secrets, connVars, workerVars, mainVars, histVars,
                   probe, daemonId, cliVars, codecVars, lockVars>>

\* run_daemon returns Err before the threads exist: exit(1)
LockAfterExit(lock, s) == IF lock = s THEN 0 ELSE lock

\* `?` on Database::new() and get_all_secrets(): an Err leaves run_daemon,
\* and start_daemon prints it and calls exit(1)
AfterLoadIgnoringError(ok) == "bind"

AfterLoad(ok) == IF ok THEN StepAfter("load") ELSE "exited"

\* run_daemon: Database::new()? and get_all_secrets()? build the cache
DaemonLoad(s, ok) ==
    /\ spc[s] = "load"
    /\ spc' = [spc EXCEPT ![s] = AfterLoad(ok)]
    /\ IF ok
       THEN /\ secrets' = BuildSecretsMap(store)
            /\ UNCHANGED <<procs, pidLock>>
       ELSE /\ procs' = procs \ {DaemonPid(s)}
            /\ pidLock' = LockAfterExit(pidLock, s)
            /\ UNCHANGED secrets
    /\ UNCHANGED <<store, connVars, workerVars, mainVars, histVars, pidFile,
                   probe, daemonId, unlock, cliVars, codecVars, lockVars>>

\* connections of a process that has ended are gone
AfterRestart(pc) == IF pc \in {"unused", "done", "failed"} THEN pc ELSE "killed"

\* UnixListener::bind(&socket_path)? fails when the path exists; after it
\* the channels and the database and acceptor threads are created and the
\* main thread blocks on the shutdown channel
DaemonBind(s) ==
    /\ spc[s] = "bind"
    /\ IF socketExists
       THEN /\ spc' = [spc EXCEPT ![s] = "exited"]
            /\ procs' = procs \ {DaemonPid(s)}
            /\ pidLock' = LockAfterExit(pidLock, s)
            /\ UNCHANGED <<connVars, workerVars, mainVars, daemonId>>
       ELSE /\ socketExists' = TRUE
            /\ spc' = [spc EXCEPT ![s] = StepAfter("bind")]
            /\ daemonId' = s
            /\ mainPc' = "block_on"
            /\ shutdown_buf' = 0
            /\ db_queue' = <<>>
            /\ db_rx_open' = TRUE
            /\ worker' = "start"
            /\ workerCmd' = NoCmd
            /\ hpc' = [h \in Conns |-> AfterRestart(hpc[h])]
            /\ reply' = [h \in Conns |->
                            IF hpc[h] \in {"done", "failed"} THEN reply[h]
                            ELSE "Pending"]
            /\ UNCHANGED <<hline, hresp, wire, procs, pidLock>>
    /\ UNCHANGED <<store, secrets, histVars, pidFile, probe, unlock, cliVars,
                   codecVars, lockVars>>

Start == \E s \in Starters : StartCheck(s)

RemoveSocket == \E s \in Starters : StartRemoveSocket(s)

Daemonize == \E s \in Starters : StartDaemonize(s)

LoadOk == \E s \in Starters : DaemonLoad(s, TRUE)

LoadErr == \E s \in Starters : DaemonLoad(s, FALSE)

Bind == \E s \in Starters : DaemonBind(s)

\* `sven stop` (main.rs): is_daemon_running() is Ok(true), then
\* shutdown_daemon() connects and sends Shutdown
StopSend ==
    /\ IsDaemonRunning(pidFile, procs) = "Ok(true)"
    /\ \E h \in Conns : ClientConnect(h, EncodeCommand([type |-> "Shutdown"]))
    /\ UNCHANGED cliVars

\* ------------------------------------------- the foreground client
\* sven add / remove / list / export, as the DaemonCommand they map to
CliOps ==
    {c \in Commands : /\ c.type # "Shutdown"
                      /\ IsMutation(c) => c.key = "BAR"
                      /\ c.type = "AddSecret" => c.value = "baz"}

\* main.rs: use_daemon is true on Ok(true) only, Err(_) counts as false
UseDaemon(result) == result = "Ok(true)"

CliCheck(op) ==
    /\ cliPc = "idle"
    /\ cliOp' = op
    /\ cliPc' = IF UseDaemon(IsDaemonRunning(pidFile, procs))
                THEN "use_daemon" ELSE "direct"
    /\ UNCHANGED <<store, secrets, connVars, workerVars, mainVars, histVars,
                   lifeVars, cliConn, codecVars, lockVars>>

\* DaemonClient::send_command up to writeln!: without the socket file it
\* returns "Daemon is not running", without a listener connect fails; the
\* caller prints the error and exits with 1
CliSend ==
    /\ cliPc = "use_daemon"
    /\ IF socketExists /\ Alive
       THEN \E h \in Conns :
                /\ ClientConnect(h, EncodeCommand(cliOp))
                /\ cliConn' = h
                /\ cliPc' = "sent"
                /\ UNCHANGED cliOp
       ELSE /\ cliPc' = "unreachable"
            /\ UNCHANGED <<store, secrets, connVars, workerVars, mainVars,
                           histVars, lifeVars, cliOp, cliConn, codecVars,
                           lockVars>>

\* send_command from read_line on: the response line, or end of file when
\* the daemon closed the connection or ended without writing
CliRecv ==
    /\ cliPc = "sent"
    /\ \/ /\ hpc[cliConn] = "done"
          /\ cliPc' = "answered"
       \/ /\ hpc[cliConn] \in {"failed", "killed"} \/ (~Alive /\ hpc[cliConn] # "done")
          /\ cliPc' = "no_response"
    /\ UNCHANGED <<store, secrets, connVars, workerVars, mainVars, histVars,
                   lifeVars, cliOp, cliConn, codecVars, lockVars>>

\* the else branch of main.rs: Database::new()?, then the operation on
\* the Store itself
DirectStore(st, op, fails) ==
    CASE op.type = "AddSecret" -> AddSecretStore(st, op.key, op.value, fails)
      [] op.type = "RemoveSecret" -> RemoveSecretStore(st, op.key, fails)
      [] OTHER -> st

CliDirect(fails) ==
    /\ cliPc = "direct"
    /\ store' = DirectStore(store, cliOp, fails)
    /\ cliPc' = IF fails THEN "db_error" ELSE "done_direct"
    /\ UNCHANGED <<secrets, connVars, workerVars, mainVars, histVars,
                   lifeVars, cliOp, cliConn, codecVars, lockVars>>

Check == \E op \in CliOps : CliCheck(op)

CliDirectOk == CliDirect(FALSE)

CliDirectErr == CliDirect(TRUE)

\* ------------------------------------------- the life of the daemon
\* what sven.pid may hold before anything is started: nothing, an empty
\* file, text that is no number, the pid of a process that is gone (as
\* written, with a newline), the pid of some other live process
InitMarkers ==
    {NoFile, <<>>, <<"x">>, PidString(StalePid) \o <<"\n">>,
     PidString(UnrelatedPid)}

LifeInit ==
    /\ store \in InitStores
    /\ secrets = {}
    /\ db_queue = <<>>
    /\ db_rx_open = FALSE
    /\ worker = "exited"
    /\ workerCmd = NoCmd
    /\ reply = [h \in Conns |-> "Pending"]
    /\ hpc = [h \in Conns |-> "unused"]
    /\ hline = [h \in Conns |-> NoLine]
    /\ hresp = [h \in Conns |-> NoResponse]
    /\ wire = [h \in Conns |-> <<>>]
    /\ shutdown_buf = 0
    /\ mainPc = "exited"
    /\ socketExists \in BOOLEAN
    /\ enqueued = <<>>
    /\ applied = <<>>
    /\ pidFile \in InitMarkers
    /\ pidLock = 0
    /\ procs = {UnrelatedPid}
    /\ spc = [s \in Starters |-> "idle"]
    /\ probe = [s \in Starters |-> NoProbe]
    /\ daemonId = 0
    /\ cliPc = "idle"
    /\ cliOp = NoCmd
    /\ cliConn = 0
    /\ codecVal = NoCmd
    /\ codecLine = NoLine
    /\ codecBack = NoCmd
    /\ unlock = [s \in Starters |-> UnlockCalled]
    /\ guard = 0
    /\ before = secrets

LifeNext ==
    \/ Start
    \/ RemoveSocket
    \/ Daemonize
    \/ LoadOk
    \/ LoadErr
    \/ Bind
    \/ StopSend
    \/ Accept
    \/ SignalShutdown
    \/ Write
    \/ WorkerStartOk
    \/ WorkerRecv
    \/ MainRecvSignal
    \/ MainSendShutdown
    \/ MainCleanup
    \/ MainExit

\* `sven unlock` and `sven stop` processes, in any interleaving
LifeSpec == LifeInit /\ [][LifeNext]_vars

\* one `sven unlock`, any number of `sven stop`, and one foreground client
CliNext ==
    \/ StartCheck(1)
    \/ StartRemoveSocket(1)
    \/ StartDaemonize(1)
    \/ DaemonLoad(1, TRUE)
    \/ DaemonBind(1)
    \/ StopSend
    \/ Check
    \/ CliSend
    \/ CliRecv
    \/ CliDirectOk
    \/ CliDirectErr
    \/ Accept
    \/ Read
    \/ Enqueue
    \/ Reply
    \/ SignalShutdown
    \/ Write
    \/ WorkerStartOk
    \/ WorkerRecv
    \/ WorkerExecOk
    \/ MainRecvSignal
    \/ MainSendShutdown
    \/ MainCleanup
    \/ MainExit

CliSpec == LifeInit /\ [][CliNext]_vars

\* ------------------------------------------------- the wire round trip
\* a DaemonCommand as the client sends it, a DaemonResponse as the
\* handler writes it
CodecValues ==
    [kind : {"command"}, val : Commands]
    \cup [kind : {"response"}, val : Responses]

Encode(v) ==
    IF v.kind = "command" THEN EncodeCommand(v.val) ELSE EncodeResponse(v.val)

Decode(kind, line) ==
    IF kind = "command" THEN DecodeCommand(line) ELSE DecodeResponse(line)

CodecInit ==
    /\ store \in InitStores
    /\ secrets = BuildSecretsMap(store)
    /\ db_queue = <<>>
    /\ db_rx_open = TRUE
    /\ worker = "start"
    /\ workerCmd = NoCmd
    /\ reply = [h \in Conns |-> "Pending"]
    /\ hpc = [h \in Conns |-> "unused"]
    /\ hline = [h \in Conns |-> NoLine]
    /\ hresp = [h \in Conns |-> NoResponse]
    /\ wire = [h \in Conns |-> <<>>]
    /\ shutdown_buf = 0
    /\ mainPc = "block_on"
    /\ socketExists = TRUE
    /\ enqueued = <<>>
    /\ applied = <<>>
    /\ pidFile = PidString(DaemonPid(1))
    /\ pidLock = 1
    /\ procs = {DaemonPid(1), UnrelatedPid}
    /\ spc = [s \in Starters |-> IF s = 1 THEN "running" ELSE "idle"]
    /\ probe = [s \in Starters |-> NoProbe]
    /\ daemonId = 1
    /\ cliPc = "idle"
    /\ cliOp = NoCmd
    /\ cliConn = 0
    /\ codecVal \in CodecValues
    /\ codecLine = NoLine
    /\ codecBack = NoCmd
    /\ unlock = [s \in Starters |-> UnlockCalled]
    /\ guard = 0
    /\ before = secrets

\* serde_json::to_string, writeln!
CodecEncode ==
    /\ codecVal # NoCmd
    /\ codecLine = NoLine
    /\ codecLine' = Encode(codecVal)
    /\ UNCHANGED <<store, secrets, connVars, workerVars, mainVars, histVars,
                   lifeVars, cliVars, codecVal, codecBack, lockVars>>

\* read_line, serde_json::from_str
CodecDecode ==
    /\ codecLine # NoLine
    /\ codecBack = NoCmd
    /\ codecBack' = Decode(codecVal.kind, codecLine)
    /\ UNCHANGED <<store, secrets, connVars, workerVars, mainVars, histVars,
                   lifeVars, cliVars, codecVal, codecLine, lockVars>>

CodecNext == CodecEncode \/ CodecDecode

CodecSpec == CodecInit /\ [][CodecNext]_vars

\* ---------------------------------------------------------------- claims
IsPrefix(s, t) == Len(s) <= Len(t) /\ SubSeq(t, 1, Len(s)) = s

Answered(h) == hpc[h] = "done"

Succeeded(h) == hpc[h] = "done" /\ Len(wire[h]) = 1 /\ wire[h][1].type = "Success"

\* C1: commands issued one at a time to a running daemon: whenever every
\* connection so far has been answered, the cache and the Store hold the
\* same set of keys.
C1_CacheKeysEqualStoreKeys ==
    (Alive /\ NoneOpen) => MapKeys(secrets) = RowKeys(store)

C1_Witness ==
    /\ Alive /\ NoneOpen
    /\ \E g, h \in Conns :
        /\ g < h
        /\ Cmd(g).type = "AddSecret" /\ Succeeded(g)
        /\ Cmd(h).type = "RemoveSecret" /\ Succeeded(h)
        /\ Cmd(g).key # Cmd(h).key
    /\ MapKeys(secrets) = {"BAR"}
    /\ RowKeys(store) = {"BAR"}

\* C2: in a running daemon with no mutation in flight the cache holds
\* exactly the keys and plaintext values of the Store, also with handlers
\* mutating concurrently.
NoMutationInFlight ==
    /\ \A h \in Conns : hpc[h] # "wait"
    /\ \A i \in 1..Len(db_queue) : db_queue[i].type = "Shutdown"
    /\ worker # "exec"

C2_QuiescentCacheEqualsStore ==
    (Alive /\ NoMutationInFlight) => secrets = GetAllSecrets(store)

\* C3: a handler whose request got Err from the worker leaves the cache
\* alone and answers Error; every change of the cache is made by a
\* handler holding an Ok reply to its own request.
C3_CacheOnlyAfterOk ==
    [][/\ \A h \in Conns :
            (hpc[h] = "wait" /\ hpc'[h] # "wait" /\ reply[h] = "Err")
            => (secrets' = secrets /\ hresp'[h].type = "Error")
       /\ \A h \in Conns :
            (hpc'[h] = "done" /\ reply'[h] = "Err")
            => (Len(wire'[h]) = 1 /\ wire'[h][1].type = "Error")
       /\ secrets' # secrets
            => \E h \in Conns : /\ hpc[h] = "wait" /\ hpc'[h] = "respond"
                                /\ reply[h] = "Ok"
                                /\ IsMutation(Cmd(h))]_vars

C3_Witness ==
    \E h \in Conns :
        /\ hpc[h] = "done" /\ reply[h] = "Err"
        /\ wire[h][1].type = "Error"
        /\ Cmd(h).type = "AddSecret"
        /\ Cmd(h).key \notin MapKeys(secrets)
        /\ Cmd(h).key \notin RowKeys(store)

\* C4: the worker executes requests in the order they were queued, one at
\* a time: what it has executed is a prefix of what was queued, the
\* request in its hands is the next one, and every earlier one has its reply.
C4_FifoOneAtATime ==
    /\ IsPrefix(applied, enqueued)
    /\ worker = "exec" =>
        /\ Len(enqueued) > Len(applied)
        /\ workerCmd.conn = enqueued[Len(applied) + 1]
        /\ reply[workerCmd.conn] = "Pending"
    /\ \A i \in 1..Len(applied) : reply[applied[i]] \in {"Ok", "Err"}
    /\ worker # "exec" => workerCmd = NoCmd

C4_Witness ==
    /\ Len(applied) = 2
    /\ applied = <<2, 1>>
    /\ enqueued = applied

\* C5: N handlers adding N distinct keys concurrently, worker operations
\* succeeding: every connection is eventually answered Success, and from
\* then on its key is in the Store and in the cache with its value.
AddLanded(h) ==
    /\ <<Cmd(h).key, Cmd(h).value>> \in secrets
    /\ <<Cmd(h).key, Encrypt(Cmd(h).value)>> \in store

C5_NoLostUpdate ==
    /\ \A h \in Conns : (hpc[h] = "connected") ~> Succeeded(h)
    /\ [](\A h \in Conns : Answered(h) => (Succeeded(h) /\ AddLanded(h)))

C5_Witness ==
    /\ \A h \in Conns : h <= 2 => Succeeded(h) /\ AddLanded(h)
    /\ Cmd(1).key # Cmd(2).key
    /\ applied = <<2, 1>>
    /\ MapKeys(secrets) = Keys
    /\ RowKeys(store) = Keys

\* C6: AddSecret(k, v1) answered, then AddSecret(k, v2) answered Success:
\* the Store has exactly one row for k and the cache exactly one entry for
\* k, both holding v2.
LastTwo(g, h) ==
    /\ h = g + 1
    /\ \A j \in Conns : j > h => hpc[j] = "unused"

C6_OverwriteLeavesOne ==
    \A g, h \in Conns :
        ( /\ LastTwo(g, h)
          /\ Cmd(g).type = "AddSecret" /\ Cmd(h).type = "AddSecret"
          /\ Cmd(g).key = Cmd(h).key
          /\ Answered(g) /\ Succeeded(h) )
        => /\ {r \in store : r[1] = Cmd(h).key} = {<<Cmd(h).key, Encrypt(Cmd(h).value)>>}
           /\ {e \in secrets : e[1] = Cmd(h).key} = {<<Cmd(h).key, Cmd(h).value>>}
           /\ Cardinality({r \in store : r[1] = Cmd(h).key}) = 1
           /\ Cardinality({e \in secrets : e[1] = Cmd(h).key}) = 1

C6_Witness ==
    /\ Cmd(1) = [type |-> "AddSecret", key |-> "BAR", value |-> "bar"]
    /\ Cmd(2) = [type |-> "AddSecret", key |-> "BAR", value |-> "baz"]
    /\ Succeeded(1) /\ Succeeded(2)
    /\ <<"BAR", "baz">> \in secrets
    /\ <<"BAR", Encrypt("baz")>> \in store

\* C7: RemoveSecret(k), no Store failure, k in neither the cache nor the
\* Store: no step while the connection is open changes either, the worker
\* replies Ok and the answer is Success; after any successful
\* RemoveSecret(k) the key is in neither, so a second one changes nothing.
Open(h) == hpc[h] \in {"connected", "start", "wait", "respond"}

AbsentKey(k) == k \notin MapKeys(secrets) /\ k \notin RowKeys(store)

C7_RemoveAbsentIsNoop ==
    [][\A h \in Conns :
        /\ ( /\ Open(h)
             /\ Cmd(h).type = "RemoveSecret"
             /\ AbsentKey(Cmd(h).key) )
           => /\ secrets' = secrets
              /\ store' = store
              /\ (WorkerExecOk /\ workerCmd.conn = h) => reply'[h] = "Ok"
              /\ (hpc[h] = "wait" /\ hpc'[h] = "respond" /\ reply[h] = "Ok")
                    => hresp'[h] = SuccessResp(<<"Removed secret: ", Cmd(h).key>>)
              /\ (hpc'[h] = "done" /\ reply[h] = "Ok")
                    => wire'[h] = <<SuccessResp(<<"Removed secret: ", Cmd(h).key>>)>>
        /\ ( /\ Cmd(h).type = "RemoveSecret"
             /\ hpc'[h] = "done" /\ Len(wire'[h]) = 1
             /\ wire'[h][1].type = "Success"
             /\ \A j \in Conns : j > h => hpc'[j] = "unused" )
           => (Cmd(h).key \notin MapKeys(secrets') /\ Cmd(h).key \notin RowKeys(store'))]_vars

C7_Witness ==
    /\ Cmd(1) = [type |-> "RemoveSecret", key |-> "FOO"]
    /\ Cmd(2) = [type |-> "RemoveSecret", key |-> "FOO"]
    /\ Succeeded(1) /\ Succeeded(2)
    /\ applied = <<1, 2>>
    /\ secrets = {}
    /\ store = {}

\* C8: every connection whose line decodes to a Command gets exactly one
\* Response line before it is closed, Success or Error for a mutation.
Closed(h) == hpc[h] \in {"done", "failed"}

C8_ExactlyOneResponse ==
    \A h \in Conns :
        (Closed(h) /\ hline[h] \notin Malformed)
        => /\ Len(wire[h]) = 1
           /\ IsMutation(Cmd(h)) => wire[h][1].type \in {"Success", "Error"}

\* C9: a request the worker fails is answered Error(message), and the step
\* that fails it leaves the worker in its loop with db_rx open and the
\* main thread where it was: the process goes on, and the acceptor still
\* takes the next waiting connection.
C9_FailureDoesNotStopDaemon ==
    [][\A h \in Conns :
        /\ (reply[h] = "Pending" /\ reply'[h] = "Err")
           => /\ worker' = "recv"
              /\ db_rx_open'
              /\ mainPc' = mainPc
              /\ mainPc' # "exited"
              /\ hpc' = hpc
        /\ (hpc'[h] = "done" /\ reply'[h] = "Err")
           => wire'[h] = <<ErrorResp(<<FailMsg(Cmd(h)), "e">>)>>
        /\ (reply[h] = "Err" /\ mainPc # "exited"
              /\ \E g \in Conns : hpc[g] = "connected")
           => ENABLED Accept]_vars

C9_Witness ==
    /\ applied = <<1, 2>>
    /\ hpc[1] = "done" /\ reply[1] = "Err" /\ wire[1][1].type = "Error"
    /\ Succeeded(2) /\ reply[2] = "Ok"
    /\ mainPc = "block_on"

\* C10: a malformed line ends its handler with an error in one step that
\* writes nothing and leaves the cache, the Store, the worker queue and
\* the shutdown channel alone; nothing is ever written on that connection,
\* and the acceptor still takes the next waiting connection.
C10_MalformedIsIsolated ==
    [][\A h \in Conns :
        hline[h] \in Malformed
        => /\ (hpc[h] = "start" /\ hpc'[h] # "start")
              => /\ hpc'[h] = "failed"
                 /\ UNCHANGED <<secrets, store, db_queue, shutdown_buf, wire,
                                hresp, worker, mainPc, socketExists>>
           /\ wire'[h] = <<>>
           /\ hresp'[h] = NoResponse
           /\ hpc'[h] \notin {"wait", "respond", "done"}
           /\ (hpc[h] = "failed" /\ mainPc # "exited"
                 /\ \E g \in Conns : hpc[g] = "connected")
              => ENABLED Accept]_vars

C10_Witness ==
    /\ hline[1] \in Malformed /\ hpc[1] = "failed" /\ wire[1] = <<>>
    /\ hpc[2] = "done" /\ Len(wire[2]) = 1
    /\ Cmd(2).type = "ListSecrets"
    /\ secrets = BuildSecretsMap(store)

\* C15: a client that sent Shutdown gets the Success line and the socket
\* file is gone afterwards: once the handler has signalled the main thread
\* and the main thread has ended the process, the line has been written.
Signalled(h) == Cmd(h).type = "Shutdown" /\ hpc[h] \in {"respond", "done"}

C15_ShutdownAnswered ==
    \A h \in Conns :
        (Signalled(h) /\ mainPc = "exited")
        => /\ wire[h] = <<SuccessResp(<<"Daemon shutting down">>)>>
           /\ ~socketExists

\* C19: the cache is updated in the order of the worker: when a handler
\* applies its Ok reply to the cache, no handler whose request the worker
\* executed earlier is still holding an Ok reply it has not applied.
AppliedBefore(g, h) ==
    \E i, j \in 1..Len(applied) : i < j /\ applied[i] = g /\ applied[j] = h

C19_CacheFollowsWorkerOrder ==
    [][\A g, h \in Conns :
        ( /\ AppliedBefore(g, h)
          /\ reply[g] = "Ok" /\ reply[h] = "Ok"
          /\ hpc[h] = "wait" /\ hpc'[h] = "respond" )
        => hpc[g] # "wait"]_vars

\* C20: the main thread removes the socket file and ends the process only
\* after the database thread has left its loop with nothing queued and
\* every request queued ahead of its Shutdown message replied to.
C20_MainWaitsForWorker ==
    mainPc \in {"exit", "exited"}
    => /\ worker = "exited"
       /\ db_queue = <<>>
       /\ \A h \in Conns : hpc[h] = "wait" => reply[h] # "Pending"

\* ------------------------------------------------ claims on the marker
AllPids == 1..UnrelatedPid

\* sven.pid exists and its line, trimmed, is the decimal form of pid
MarkerNames(file, pid) == file # NoFile /\ Trim(ReadLine(file)) = PidString(pid)

NamesLive(file, live) == \E p \in live : MarkerNames(file, p)

NamesDead(file, live) == \E p \in AllPids \ live : MarkerNames(file, p)

\* C11: a start made while sven.pid names a live process ends in the
\* already-running error in its first step; that step and everything
\* after it in the rejected call leave sven.pid, the socket file and the
\* cache as they are.
C11_StartWhileLiveRejected ==
    [][\A s \in Starters :
        /\ ( /\ spc[s] = "idle" /\ spc'[s] # "idle"
             /\ NamesLive(pidFile, procs) )
           => /\ spc'[s] = "rejected"
              /\ probe'[s].result = "Ok(true)"
              /\ UNCHANGED <<pidFile, socketExists, secrets, store, procs,
                             pidLock, connVars, workerVars, mainPc>>
        /\ spc[s] = "rejected"
           => /\ spc'[s] = "rejected"
              /\ ~ENABLED StartRemoveSocket(s)
              /\ ~ENABLED StartDaemonize(s)
              /\ ~ENABLED DaemonBind(s)]_vars

C11_Witness ==
    \E a, b \in Starters :
        /\ spc[a] = "running" /\ mainPc = "block_on"
        /\ spc[b] = "rejected"
        /\ probe[b].line = PidString(DaemonPid(a))
        /\ pidFile = PidString(DaemonPid(a))
        /\ socketExists
        /\ secrets = BuildSecretsMap(store)

\* C12: at most one daemon is Running at any time, whatever the order in
\* which the steps of concurrent starts interleave; every daemon past
\* daemonize.start() holds the lock on sven.pid.
Running(s) == spc[s] = "running"

C12_AtMostOneRunning ==
    /\ Cardinality({s \in Starters : Running(s)}) <= 1
    /\ \A s \in Starters : spc[s] \in {"load", "bind", "running"} => pidLock = s
    /\ \A s \in Starters : Running(s) => (daemonId = s /\ DaemonPid(s) \in procs)

C12_Witness ==
    \E a, b \in Starters :
        /\ Running(a)
        /\ spc[b] = "failed"
        /\ probe[b].result = "Ok(false)"
        /\ probe[a].result = "Ok(false)"
        /\ probe[a].line = probe[b].line
        /\ ~socketExists

\* C13: a start that finds sven.pid naming a pid without a process is
\* judged not running and goes on; past daemonize.start() sven.pid holds
\* the new daemon's pid instead of the stale one, and the socket file it
\* found is gone before it binds its own.
C13_StaleMarkerStartSucceeds ==
    \A s \in Starters :
        (probe[s] # NoProbe /\ NamesDead(probe[s].line, probe[s].live))
        => /\ probe[s].result = "Ok(false)"
           /\ spc[s] \notin {"idle", "rejected"}
           /\ spc[s] \in {"load", "bind", "running"}
              => /\ pidFile = PidString(DaemonPid(s))
                 /\ pidFile # probe[s].line
                 /\ DaemonPid(s) \in procs
           /\ (spc[s] \in {"daemonize", "load", "bind"} /\ socketExists)
              => \E t \in Starters \ {s} : Running(t)
           /\ Running(s) => mainPc # "exited"

C13_Witness ==
    \E s \in Starters :
        /\ probe[s].result = "Ok(false)"
        /\ probe[s].line = PidString(StalePid) \o <<"\n">>
        /\ StalePid \notin probe[s].live
        /\ Running(s)
        /\ pidFile = PidString(DaemonPid(s))
        /\ socketExists
        /\ \A t \in Starters \ {s} : spc[t] = "idle"

\* C14: is_daemon_running answers true exactly when sven.pid exists and
\* names a live process, and false for every other content of sven.pid.
C14_IsRunningIffNamesLive ==
    \A s \in Starters :
        probe[s] # NoProbe
        => probe[s].result =
              (IF NamesLive(probe[s].line, probe[s].live)
               THEN "Ok(true)" ELSE "Ok(false)")

\* C16: a foreground client that cannot reach a daemon carries out its
\* operation on the Store itself: it never ends with the error of
\* send_command, neither for a missing socket file or listener nor for a
\* connection that ends without a response.
C16_FallsBackWhenUnreachable ==
    cliPc \notin {"unreachable", "no_response"}

\* C17: while a daemon is Running no foreground client carries out a
\* mutation on the Store itself.
C17_OnlyWorkerWritesWhileRunning ==
    [][(cliPc = "direct" /\ cliPc' = "done_direct" /\ IsMutation(cliOp))
        => \A s \in Starters : ~Running(s)]_vars

\* C18: a DaemonCommand or DaemonResponse written as its line and read
\* back from that line is the value that was written.
C18_RoundTrip ==
    codecBack # NoCmd => codecBack = codecVal.val

C18_Witness ==
    /\ codecVal.kind = "response"
    /\ codecVal.val.type = "Secrets"
    /\ Len(codecVal.val.list) = MaxList
    /\ codecLine = EncodeResponse(codecVal.val)
    /\ codecBack = codecVal.val

\* C28: the step that handles GetSecrets or ListSecrets changes neither
\* the cache nor the Store, queues nothing for the worker and signals no
\* shutdown; its response is built from the cache as it is, and the keys
\* of a Secrets response are the keys of the KeyList response for the
\* same cache.
IsRead(c) == c.type \in {"GetSecrets", "ListSecrets"}

C28_ReadsArePure ==
    [][\A h \in Conns :
        (hpc[h] = "start" /\ hpc'[h] # "start" /\ IsRead(Cmd(h)))
        => /\ UNCHANGED <<secrets, store, db_queue, enqueued, shutdown_buf,
                          worker, workerCmd, mainPc, socketExists>>
           /\ hpc'[h] = "respond"
           /\ Cmd(h).type = "GetSecrets"
                => (hresp'[h].type = "Secrets" /\ hresp'[h].list = secrets)
           /\ Cmd(h).type = "ListSecrets"
                => (hresp'[h].type = "KeyList"
                    /\ hresp'[h].list = {e[1] : e \in SecretsResp(secrets).list})]_vars

C28_Witness ==
    /\ Cmd(1).type = "GetSecrets" /\ Cmd(2).type = "ListSecrets"
    /\ hpc[1] = "done" /\ hpc[2] = "done"
    /\ wire[1][1].type = "Secrets" /\ wire[2][1].type = "KeyList"
    /\ {e[1] : e \in wire[1][1].list} = wire[2][1].list
    /\ wire[2][1].list = {"FOO"}
    /\ secrets = BuildSecretsMap(store)
    /\ db_queue = <<>> /\ enqueued = <<>> /\ shutdown_buf = 0

Phase(s) ==
    CASE spc[s] \in {"remove_socket", "daemonize", "load", "bind"} -> "Starting"
      [] spc[s] = "running" /\ mainPc = "block_on" -> "Running"
      [] spc[s] = "running" -> "ShuttingDown"
      [] OTHER -> "NotRunning"

PhaseOrder ==
    {<<"NotRunning", "Starting">>, <<"Starting", "Running">>,
     <<"Starting", "NotRunning">>, <<"Running", "ShuttingDown">>,
     <<"ShuttingDown", "NotRunning">>}

Accepted(h) == hpc[h] = "connected" /\ hpc'[h] = "start"

C25_LifecycleOrder ==
    [][/\ \A s \in Starters :
            Phase(s)' # Phase(s) => <<Phase(s), Phase(s)'>> \in PhaseOrder
       /\ \A h \in Conns :
            Accepted(h)
            => /\ \E s \in Starters : Phase(s) \in {"Running", "ShuttingDown"}
               /\ mainPc \notin {"exit", "exited"}]_vars

\* C24: a start whose lock and write of sven.pid, whose initial
\* decryption or whose bind fails ends there: the process is gone with
\* nothing of a daemon created, it takes no later step, and handlers and
\* the database thread run only in a daemon that reached Running.
DaemonUntouched ==
    UNCHANGED <<hpc, hresp, wire, worker, db_queue, db_rx_open, mainPc,
                shutdown_buf, socketExists, secrets, store, daemonId>>

Decrypting == {s \in Starters : spc[s] = "load"}

Encrypting ==
    IF Alive /\ worker = "exec" /\ workerCmd.type = "AddSecret" THEN {"worker"}
    ELSE {}

C21_OneCipherOperation ==
    /\ Cardinality(Decrypting) + Cardinality(Encrypting) <= 1
    /\ Decrypting # {} => ~Alive
    /\ Alive => \E s \in Starters : spc[s] = "running" /\ daemonId = s

C21_Witness ==
    /\ Encrypting # {}
    /\ Decrypting = {}
    /\ spc[1] = "running"
    /\ <<"FOO", "bar">> \in secrets
    /\ workerCmd.key = "BAR"
    /\ cliPc = "sent"

\* C26: the probe that `sven unlock` makes after its start request ends:
\* is_daemon_running is called at most max_attempts times, and a start
\* request that did not fail ends with one of the two lines of the probe,
\* the informational one after max_attempts calls without Ok(true).
max_attempts == 5

ProbeLines ==
    {"Daemon started successfully. Secrets are now unlocked and cached in memory.",
     "Daemon started but may need a moment to initialize fully. Run 'sven status' to check."}

GaveUpLine ==
    "Daemon started but may need a moment to initialize fully. Run 'sven status' to check."

C26_ProbeEndsWithMessage ==
    \A s \in Starters :
        /\ unlock[s].attempts <= max_attempts
        /\ unlock[s].pc = "ended" =>
            /\ unlock[s].printed \in ProbeLines
            /\ unlock[s].printed = GaveUpLine => unlock[s].attempts = max_attempts

\* C22: a handler holds the cache's Mutex only while it reads the cache or
\* after the database thread's reply has arrived, never while it waits for
\* that reply; so a GetSecrets or ListSecrets of another handler gets the
\* Mutex and its response even if the database thread never replies.
HoldsMutex(h) == guard = h

WaitsForReply(h) == hpc[h] = "wait" /\ reply[h] = "Pending"

ReadPending(h) ==
    /\ hpc[h] = "start"
    /\ Cmd(h).type \in {"GetSecrets", "ListSecrets"}

C22_NoLockWhileWaiting ==
    /\ [](\A h \in Conns :
            /\ ~(HoldsMutex(h) /\ WaitsForReply(h))
            /\ HoldsMutex(h) =>
                \/ hpc[h] = "reading"
                \/ hpc[h] \in {"locked", "writing"} /\ reply[h] = "Ok")
    /\ \A h \in Conns : ReadPending(h) ~> hpc[h] \in {"respond", "done"}

C22_Witness ==
    /\ HoldsMutex(2)
    /\ hpc[2] = "reading"
    /\ WaitsForReply(1)
    /\ worker = "exec"

\* C23: the response of a GetSecrets or ListSecrets is made from the cache
\* as it is before or after a write, never from the cache in the middle of
\* one: while an AddSecret(k, v) is being applied the response has k as it
\* was before or k with v.
Writing(g) == hpc[g] = "writing"

Settled ==
    IF \E g \in Conns : Writing(g)
    THEN {before} \cup {CacheAfterReply(before, Cmd(g), "Ok") :
                            g \in {c \in Conns : Writing(c)}}
    ELSE {secrets}

ReadAnswered(h) == hpc[h] = "reading" /\ hpc'[h] = "respond"

C23_ReadSeesWholeWrites ==
    [][\A h \in Conns :
        ReadAnswered(h) =>
            hresp'[h] \in {ReadResponse(Cmd(h), m) : m \in Settled}]_vars

C23_Witness ==
    /\ hpc[2] \in {"respond", "done"}
    /\ Cmd(2).type = "GetSecrets"
    /\ hresp[2] = SecretsResp({<<"FOO", "baz">>})
    /\ Cmd(1).type = "AddSecret"
    /\ hpc[1] = "respond"
    /\ before = {<<"FOO", "bar">>}

====
